---- MODULE Spec2Model ----
(***************************************************************************)
(* Vault risk analyzer: the calculation utilities (calculateVaultMetrics,  *)
(* buildPriceMap, mergeSimulatedPrices, calculateHealthFactor, ...), the   *)
(* App session (handleAddressSubmit, handlePriceChange, simulationData)    *)
(* and the RiskVisualizer classification.                                  *)
(*                                                                         *)
(* JavaScript Numbers are IEEE-754 binary64 values.  They are modelled     *)
(* bit-exactly for the non-negative finite values the program computes     *)
(* with: a Number is [m, e] standing for m * 2^e, with m a 53-bit          *)
(* mantissa (or zero), and every operation rounds to nearest, ties to      *)
(* even.  Mantissas and BigInts exceed 32-bit machine integers, so they    *)
(* are kept as little-endian sequences of limbs in base 2^14.              *)
(***************************************************************************)
EXTENDS Integers, Sequences, FiniteSets, TLC

\* ------------------------------------------------------------------------
\* BigInt: natural numbers of arbitrary size (little-endian limbs, no
\* leading zero limb; zero is the empty sequence).
\* ------------------------------------------------------------------------
LimbBits == 14
Base == 2 ^ LimbBits

\* JavaScript evaluates eagerly: Then(v, w) is w, computed once v has been.
Then(v, w) == IF v = v THEN w ELSE w

Min(a, b) == IF a <= b THEN a ELSE b
Max(a, b) == IF a >= b THEN a ELSE b

Limb(a, i) == IF i >= 1 /\ i <= Len(a) THEN a[i] ELSE 0

RECURSIVE Trim(_)
Trim(s) ==
  IF s = << >> THEN s
  ELSE IF s[Len(s)] = 0 THEN Trim(SubSeq(s, 1, Len(s) - 1)) ELSE s

\* Propagate carries through a sequence of non-negative coefficients.
RECURSIVE Carry(_, _)
Carry(s, c) ==
  IF s = << >>
  THEN IF c = 0 THEN << >> ELSE <<c % Base>> \o Carry(<< >>, c \div Base)
  ELSE <<(s[1] + c) % Base>> \o Carry(Tail(s), (s[1] + c) \div Base)

BFromInt(n) == Trim(Carry(<<n>>, 0))

RECURSIVE BToInt(_)
BToInt(a) == IF a = << >> THEN 0 ELSE a[1] + Base * BToInt(Tail(a))

BAdd(a, b) ==
  Carry([i \in 1..Max(Len(a), Len(b)) |-> Limb(a, i) + Limb(b, i)], 0)

\* a * k for a machine integer 0 <= k < 2^16
BMulSmall(a, k) == Trim(Carry([i \in 1..Len(a) |-> a[i] * k], 0))

RECURSIVE ConvSum(_, _, _, _)
ConvSum(a, b, k, i) ==
  IF i > Len(a) THEN 0
  ELSE a[i] * Limb(b, k - i + 1) + ConvSum(a, b, k, i + 1)

\* a * b for operands of at most 7 limbs each
BMul(a, b) ==
  IF a = << >> \/ b = << >> THEN << >>
  ELSE Trim(Carry([k \in 1..(Len(a) + Len(b) - 1) |-> ConvSum(a, b, k, 1)], 0))

RECURSIVE BCmpFrom(_, _, _)
BCmpFrom(a, b, i) ==
  IF i = 0 THEN 0
  ELSE IF a[i] < b[i] THEN -1
  ELSE IF a[i] > b[i] THEN 1
  ELSE BCmpFrom(a, b, i - 1)

\* -1, 0, 1 as a < b, a = b, a > b
BCmp(a, b) ==
  IF Len(a) < Len(b) THEN -1
  ELSE IF Len(a) > Len(b) THEN 1
  ELSE BCmpFrom(a, b, Len(a))

BLe(a, b) == BCmp(a, b) <= 0

RECURSIVE Borrow(_, _, _)
Borrow(a, b, c) ==
  IF a = << >> THEN << >>
  ELSE IF a[1] - Limb(b, 1) - c < 0
  THEN <<a[1] - Limb(b, 1) - c + Base>>
       \o Borrow(Tail(a), IF b = << >> THEN b ELSE Tail(b), 1)
  ELSE <<a[1] - Limb(b, 1) - c>>
       \o Borrow(Tail(a), IF b = << >> THEN b ELSE Tail(b), 0)

\* a - b for a >= b
BSub(a, b) == Trim(Borrow(a, b, 0))

RECURSIVE LimbLen(_)
LimbLen(x) == IF x = 0 THEN 0 ELSE 1 + LimbLen(x \div 2)

BitLen(a) == IF a = << >> THEN 0 ELSE LimbBits * (Len(a) - 1) + LimbLen(a[Len(a)])

\* a * 2^k
BShl(a, k) ==
  IF a = << >> THEN a
  ELSE [i \in 1..(k \div LimbBits) |-> 0] \o BMulSmall(a, 2 ^ (k % LimbBits))

\* floor(a / 2^k)
BShr(a, k) ==
  IF k \div LimbBits >= Len(a) THEN << >>
  ELSE Trim([i \in 1..(Len(a) - (k \div LimbBits)) |->
               (a[i + (k \div LimbBits)] \div (2 ^ (k % LimbBits)))
               + (Limb(a, i + (k \div LimbBits) + 1) % (2 ^ (k % LimbBits)))
                 * (2 ^ (LimbBits - (k % LimbBits)))])

\* bit k (k >= 0) of a
BBit(a, k) == (Limb(a, (k \div LimbBits) + 1) \div (2 ^ (k % LimbBits))) % 2 = 1

\* a mod 2^k = 0
BLowZero(a, k) ==
  /\ \A i \in 1..Min(Len(a), k \div LimbBits) : a[i] = 0
  /\ Limb(a, (k \div LimbBits) + 1) % (2 ^ (k % LimbBits)) = 0

\* The quotient digit of r by d, for r < d * Base and d with its top bit set
\* in its top limb: the estimate qhat from the leading limbs is at most 2 too
\* big.
QDigitFrom(r, d, qhat) ==
  IF BLe(BMulSmall(d, qhat), r) THEN qhat
  ELSE IF BLe(BMulSmall(d, qhat - 1), r) THEN qhat - 1
  ELSE qhat - 2

QDigit(r, d) ==
  QDigitFrom(r, d, Min(Base - 1,
                       (Limb(r, Len(d) + 1) * Base + Limb(r, Len(d))) \div d[Len(d)]))

\* One step of the long division: the digit for the remainder r1, put in
\* front of the digits q found so far, and the remainder left
DivStepWith(r1, d, q, digit) ==
  [q |-> <<digit>> \o q, r |-> BSub(r1, BMulSmall(d, digit))]

DivStep(r1, d, q) == DivStepWith(r1, d, q, QDigit(r1, d))

\* Long division, one quotient digit per remaining limb of n (most significant
\* first); st holds the digits found so far and the running remainder.
RECURSIVE DivLoop(_, _, _, _)
DivLoop(n, d, i, st) ==
  IF i = 0 THEN st
  ELSE Then(st, DivLoop(n, d, i - 1, DivStep(Trim(<<n[i]>> \o st.r), d, st.q)))

\* n / d for d with its top bit set in its top limb.  The leading Len(d) - 1
\* limbs of n are below d, so their digits are zero.
BDivModNormal(n, d, k) ==
  DivLoop(n, d, Len(n) - k,
          [q |-> << >>, r |-> Trim(SubSeq(n, Len(n) - k + 1, Len(n)))])

BDivModShifted(n, d) == BDivModNormal(n, d, Min(Len(n), Len(d) - 1))

BDivModTrim(st) == [q |-> Trim(st.q), r |-> st.r]

\* [q |-> floor(n / d), r |-> (n mod d) * 2^s] for d > 0, s a normalising shift
BDivMod(n, d) ==
  BDivModTrim(BDivModShifted(BShl(n, LimbBits - LimbLen(d[Len(d)])),
                             BShl(d, LimbBits - LimbLen(d[Len(d)]))))

RECURSIVE BPow10(_)
BPow10(k) ==
  IF k <= 9 THEN BFromInt(10 ^ k) ELSE BMul(BFromInt(10 ^ 9), BPow10(k - 9))

\* ------------------------------------------------------------------------
\* Number: IEEE-754 binary64, non-negative finite values.
\* ------------------------------------------------------------------------
MantBits == 53

FZero == [m |-> << >>, e |-> 0]

\* A mantissa q1 that rounding up has carried to MantBits + 1 bits loses its
\* last bit (a zero)
RoundCarry(q1, e) ==
  IF BitLen(q1) > MantBits THEN [m |-> BShr(q1, 1), e |-> e + 1] ELSE [m |-> q1, e |-> e]

\* n has k bits too many and q is n without them: round to nearest, ties to
\* even
RoundBits(n, e, sticky, k, q) ==
  RoundCarry(IF BBit(n, k - 1) /\ (sticky \/ ~BLowZero(n, k - 1) \/ q[1] % 2 = 1)
             THEN BAdd(q, <<1>>) ELSE q,
             e + k)

RoundLen(n, e, sticky, L) ==
  IF L <= MantBits
  THEN [m |-> BShl(n, MantBits - L), e |-> e - (MantBits - L)]
  ELSE RoundBits(n, e, sticky, L - MantBits, BShr(n, L - MantBits))

\* The Number nearest to n * 2^e (+ a positive fraction of 2^e when sticky),
\* ties to even.  A sticky n has at least MantBits + 2 bits.
Round(n, e, sticky) ==
  IF n = << >> THEN FZero ELSE RoundLen(n, e, sticky, BitLen(n))

\* Number(bigint), and the Number of an integer literal
FromBig(n) == Round(n, 0, FALSE)
FromInt(i) == FromBig(BFromInt(i))

FQuotRound(qr, e) == Round(qr.q, e, qr.r # << >>)

FQuotShift(n, d, e, s) == FQuotRound(BDivMod(BShl(n, s), d), e - s)

\* The Number nearest to (n / d) * 2^e, for BigInts n and d > 0
FQuot(n, d, e) ==
  IF n = << >> THEN FZero
  ELSE FQuotShift(n, d, e, Max(0, BitLen(d) + MantBits + 3 - BitLen(n)))

FIsZero(a) == a.m = << >>

\* a / b, b > 0
FDiv(a, b) == FQuot(a.m, b.m, a.e - b.e)

\* a * b
FMul(a, b) ==
  IF FIsZero(a) \/ FIsZero(b) THEN FZero
  ELSE Round(BMul(a.m, b.m), a.e + b.e, FALSE)

\* a + b
FAdd(a, b) ==
  IF FIsZero(a) THEN b
  ELSE IF FIsZero(b) THEN a
  ELSE Round(BAdd(BShl(a.m, a.e - Min(a.e, b.e)), BShl(b.m, b.e - Min(a.e, b.e))),
             Min(a.e, b.e), FALSE)

\* a < b
FLt(a, b) ==
  IF FIsZero(b) THEN FALSE
  ELSE IF FIsZero(a) THEN TRUE
  ELSE a.e < b.e \/ (a.e = b.e /\ BCmp(a.m, b.m) < 0)

FLe(a, b) == a = b \/ FLt(a, b)

\* Math.floor(a), as a BigInt
FFloor(a) ==
  IF FIsZero(a) THEN << >>
  ELSE IF a.e >= 0 THEN BShl(a.m, a.e) ELSE BShr(a.m, 0 - a.e)

\* The Number written as the decimal literal n * 10^(-k), e.g. 0.6 is FDec(6, 1)
FDec(n, k) == FQuot(BFromInt(n), BPow10(k), 0)

\* ------------------------------------------------------------------------
\* Strings.  A token address is a sequence of characters; the model writes
\* an address by its first byte (two hex digits), in whatever letter case
\* the caller or the chain spells it.
\* ------------------------------------------------------------------------
LowerChar(c) ==
  CASE c = "A" -> "a" [] c = "B" -> "b" [] c = "C" -> "c"
    [] c = "D" -> "d" [] c = "E" -> "e" [] c = "F" -> "f"
    [] OTHER -> c

toLowerCase(s) == [i \in DOMAIN s |-> LowerChar(s[i])]

\* ------------------------------------------------------------------------
\* Map and plain-object values: entries in insertion order.
\* ------------------------------------------------------------------------
MapHas(m, k) == \E i \in DOMAIN m : m[i].key = k

MapGet(m, k) == m[CHOOSE i \in DOMAIN m : m[i].key = k].val

MapSet(m, k, v) ==
  IF MapHas(m, k)
  THEN [i \in DOMAIN m |-> IF m[i].key = k THEN [key |-> k, val |-> v] ELSE m[i]]
  ELSE Append(m, [key |-> k, val |-> v])

MapKeys(m) == {m[i].key : i \in DOMAIN m}

\* ------------------------------------------------------------------------
\* config.js and constants.js
\* ------------------------------------------------------------------------
PRICE_MULTIPLIER == 1000000
DEFAULT_TOKEN_DECIMALS == 18

LTV_CONFIG ==
  << [key |-> <<"5", "3">>, val |-> 55],   \* wETH
     [key |-> <<"0", "6">>, val |-> 90],   \* USDC
     [key |-> <<"f", "5">>, val |-> 90],   \* USDT
     [key |-> <<"0", "1">>, val |-> 55],   \* weETH
     [key |-> <<"9", "3">>, val |-> 80],   \* eUSD
     [key |-> <<"6", "5">>, val |-> 52],   \* eBTC
     [key |-> <<"0", "5">>, val |-> 20],   \* ETHFI
     [key |-> <<"f", "0">>, val |-> 50],   \* LiquidETH
     [key |-> <<"5", "f">>, val |-> 50],   \* LiquidBTC
     [key |-> <<"0", "8">>, val |-> 80],   \* LiquidUSD
     [key |-> <<"d", "8">>, val |-> 45],   \* wHYPE
     [key |-> <<"a", "5">>, val |-> 40],   \* beHYPE
     [key |-> <<"d", "2">>, val |-> 20] >> \* SCR

RISK_THRESHOLDS ==
  [WARNING |-> FDec(6, 1), DANGER |-> FDec(8, 1), CRITICAL |-> FDec(9, 1)]

\* ------------------------------------------------------------------------
\* calculations.js
\* ------------------------------------------------------------------------
\* The outcome of a call that threw
Thrown == [threw |-> TRUE, maxBorrow |-> 0, totalCollateral |-> 0]

\* The locals of the forEach body of calculateVaultMetrics
decimalsOf(metadataMap, tokenAddr) ==
  IF MapHas(metadataMap, tokenAddr) /\ MapGet(metadataMap, tokenAddr).decimals # 0
  THEN MapGet(metadataMap, tokenAddr).decimals
  ELSE DEFAULT_TOKEN_DECIMALS

priceOf(priceMap, tokenAddr) ==
  IF MapHas(priceMap, tokenAddr) THEN MapGet(priceMap, tokenAddr) ELSE 0

ltvOf(tokenAddr) ==
  IF MapHas(LTV_CONFIG, tokenAddr) THEN MapGet(LTV_CONFIG, tokenAddr) ELSE 0

\* Number(ethers.formatUnits(amount, decimals))
amountFloat(amount, decimals) == FQuot(amount, BPow10(decimals), 0)

\* Number(price) / PRICE_MULTIPLIER
priceFloat(price) == FDiv(FromInt(price), FromInt(PRICE_MULTIPLIER))

valueUSD(token, priceMap, metadataMap) ==
  FMul(amountFloat(token.amount, decimalsOf(metadataMap, toLowerCase(token.token))),
       priceFloat(priceOf(priceMap, toLowerCase(token.token))))

borrowPower(value, ltv) == FMul(value, FDiv(FromInt(ltv), FromInt(100)))

\* The return statement of calculateVaultMetrics
MetricsResult(maxBorrowUSD, totalCollateralUSD) ==
  [threw |-> FALSE,
   maxBorrow |-> BToInt(FFloor(FMul(maxBorrowUSD, FromInt(PRICE_MULTIPLIER)))),
   totalCollateral |->
     BToInt(FFloor(FMul(totalCollateralUSD, FromInt(PRICE_MULTIPLIER))))]

\* The two += of the forEach body, for a token worth value
MetricsSums(tokenAddr, value, maxBorrowUSD, totalCollateralUSD) ==
  [maxBorrowUSD |-> FAdd(maxBorrowUSD, borrowPower(value, ltvOf(tokenAddr))),
   totalCollateralUSD |-> FAdd(totalCollateralUSD, value)]

\* The forEach of calculateVaultMetrics from token i on, sums holding the two
\* running totals.  A token is a plain object {token, amount}: token[1] is
\* undefined, so a zero amount (0n is falsy) hands undefined to
\* ethers.formatUnits, which throws.
RECURSIVE MetricsLoop(_, _, _, _, _)
MetricsLoop(collateralTokens, i, priceMap, metadataMap, sums) ==
  IF i > Len(collateralTokens)
  THEN MetricsResult(sums.maxBorrowUSD, sums.totalCollateralUSD)
  ELSE IF collateralTokens[i].amount = << >>
  THEN Thrown
  ELSE Then(sums,
            MetricsLoop(collateralTokens, i + 1, priceMap, metadataMap,
                        MetricsSums(toLowerCase(collateralTokens[i].token),
                                    valueUSD(collateralTokens[i], priceMap, metadataMap),
                                    sums.maxBorrowUSD, sums.totalCollateralUSD)))

\* A result with its two totals under each other's name
Swapped(m) ==
  [threw |-> m.threw, maxBorrow |-> m.totalCollateral, totalCollateral |-> m.maxBorrow]

\* calculateVaultMetrics returning its two totals under each other's name
calculateVaultMetricsSwapped(collateralTokens, priceMap, metadataMap) ==
  Swapped(MetricsLoop(collateralTokens, 1, priceMap, metadataMap,
                      [maxBorrowUSD |-> FZero, totalCollateralUSD |-> FZero]))

calculateVaultMetrics(collateralTokens, priceMap, metadataMap) ==
  MetricsLoop(collateralTokens, 1, priceMap, metadataMap,
              [maxBorrowUSD |-> FZero, totalCollateralUSD |-> FZero])

\* value is a whole number of micro-dollars (bigint or number) or undefined (0)
toUSDFloat(value) ==
  IF value = 0 THEN FZero ELSE FDiv(FromInt(value), FromInt(PRICE_MULTIPLIER))

\* toUSDScaled with Math.round for Math.floor
toUSDScaledRounded(value) ==
  BToInt(FFloor(FAdd(FMul(value, FromInt(PRICE_MULTIPLIER)), FDec(5, 1))))

toUSDScaled(value) == BToInt(FFloor(FMul(value, FromInt(PRICE_MULTIPLIER))))

\* calculateHealthFactor capped at 1
calculateHealthFactorClamped(currentBorrow, maxBorrow) ==
  IF FLe(maxBorrow, FZero) THEN FZero
  ELSE IF FLt(maxBorrow, currentBorrow) THEN FromInt(1)
  ELSE FDiv(currentBorrow, maxBorrow)

calculateHealthFactor(currentBorrow, maxBorrow) ==
  IF FLe(maxBorrow, FZero) THEN FZero ELSE FDiv(currentBorrow, maxBorrow)

calculateLTV(currentBorrow, totalCollateral) ==
  IF FLe(totalCollateral, FZero) THEN FZero ELSE FDiv(currentBorrow, totalCollateral)

RECURSIVE PriceLoop(_, _, _)
PriceLoop(tokenPrices, i, priceMap) ==
  IF i > Len(tokenPrices) THEN priceMap
  ELSE PriceLoop(tokenPrices, i + 1,
                 MapSet(priceMap, toLowerCase(tokenPrices[i].token), tokenPrices[i].amount))

\* buildPriceMap keying each quote by p.token as spelled
RECURSIVE PriceLoopAsSpelled(_, _, _)
PriceLoopAsSpelled(tokenPrices, i, priceMap) ==
  IF i > Len(tokenPrices) THEN priceMap
  ELSE PriceLoopAsSpelled(tokenPrices, i + 1,
                          MapSet(priceMap, tokenPrices[i].token, tokenPrices[i].amount))

buildPriceMapAsSpelled(tokenPrices) == PriceLoopAsSpelled(tokenPrices, 1, << >>)

\* tokenPrices is a sequence of {token, amount}; null is the empty sequence
buildPriceMap(tokenPrices) == PriceLoop(tokenPrices, 1, << >>)

RECURSIVE MergeLoop(_, _, _)
MergeLoop(simulatedPrices, i, priceMap) ==
  IF i > Len(simulatedPrices) THEN priceMap
  ELSE MergeLoop(simulatedPrices, i + 1,
                 MapSet(priceMap, simulatedPrices[i].key, simulatedPrices[i].val))

\* mergeSimulatedPrices in which a simulated price only fills a missing quote
RECURSIVE MergeLoopBaseWins(_, _, _)
MergeLoopBaseWins(simulatedPrices, i, priceMap) ==
  IF i > Len(simulatedPrices) THEN priceMap
  ELSE MergeLoopBaseWins(simulatedPrices, i + 1,
         IF MapHas(priceMap, simulatedPrices[i].key) THEN priceMap
         ELSE MapSet(priceMap, simulatedPrices[i].key, simulatedPrices[i].val))

mergeBaseWins(originalPrices, simulatedPrices) ==
  MergeLoopBaseWins(simulatedPrices, 1, buildPriceMap(originalPrices))

mergeSimulatedPrices(originalPrices, simulatedPrices) ==
  MergeLoop(simulatedPrices, 1, buildPriceMap(originalPrices))

\* ------------------------------------------------------------------------
\* RiskVisualizer.jsx: what a render shows for a displayed debt and maxBorrow
\* ------------------------------------------------------------------------
healthFactorOf(displayBorrow, maxBorrow) ==
  IF FLt(FZero, maxBorrow) THEN FDiv(displayBorrow, maxBorrow) ELSE FZero

\* getRiskColor with "usage >" for "usage >="
getRiskColorStrict(usage) ==
  IF FLt(RISK_THRESHOLDS.DANGER, usage) THEN "var(--danger)"
  ELSE IF FLt(RISK_THRESHOLDS.WARNING, usage) THEN "var(--warning)"
  ELSE "var(--success)"

getRiskColor(usage) ==
  IF FLe(RISK_THRESHOLDS.DANGER, usage) THEN "var(--danger)"
  ELSE IF FLe(RISK_THRESHOLDS.WARNING, usage) THEN "var(--warning)"
  ELSE "var(--success)"

riskAlert(healthFactor) == FLt(RISK_THRESHOLDS.CRITICAL, healthFactor)

\* A field of the metrics memo: Number(value) / PRICE_MULTIPLIER
metricOf(value) == FDiv(FromInt(value), FromInt(PRICE_MULTIPLIER))

\* The return of a render: the health factor with its colour and alert
RiskView(displayBorrow, maxBorrow, healthFactor) ==
  [displayBorrow |-> displayBorrow, maxBorrow |-> maxBorrow,
   healthFactor |-> healthFactor, riskColor |-> getRiskColor(healthFactor),
   riskAlert |-> riskAlert(healthFactor)]

RiskViewOf(displayBorrow, maxBorrow) ==
  RiskView(displayBorrow, maxBorrow, healthFactorOf(displayBorrow, maxBorrow))

\* What one render shows.  d is the data prop (its totals in micro-dollars),
\* dragBorrow the dragged debt: null (the empty sequence) or a Number.
RiskVisualizer(d, dragBorrow) ==
  RiskViewOf(IF dragBorrow # << >> THEN dragBorrow[1] ELSE metricOf(d.totalBorrow),
             metricOf(d.maxBorrow))

\* ------------------------------------------------------------------------
\* The chain: what CashLens.getSafeCashData and the ERC20 contracts answer.
\* Micro-dollar quantities (prices, totals) fit machine integers and are
\* written as such; token amounts are BigInts.
\* ------------------------------------------------------------------------
LiquidETH == <<"F", "0">>   \* as the chain spells it (checksummed)
USDC == <<"0", "6">>
Unlisted == <<"0", "0">>    \* a token with no LTV_CONFIG entry

CONTRACT_ERRORS == [INVALID_SAFE |-> "0x34d0b499"]

ERROR_MESSAGES ==
  [INVALID_SAFE |-> "This address is not a valid Ether.fi Safe.",
   FETCH_FAILED |-> "Could not fetch vault data. Ensure address is a valid Safe on Scroll.",
   UNKNOWN |-> "An unknown error occurred while fetching data."]

\* decimals() of each token; Unlisted has no decimals() (the call fails)
TokenDecimals == << [key |-> LiquidETH, val |-> 18], [key |-> USDC, val |-> 6] >>

Safe(collateralBalances, borrows, tokenPrices, totalCollateral, totalBorrow, maxBorrow) ==
  [reverts |-> FALSE, collateralBalances |-> collateralBalances, borrows |-> borrows,
   tokenPrices |-> tokenPrices, totalCollateral |-> totalCollateral,
   totalBorrow |-> totalBorrow, maxBorrow |-> maxBorrow]

Revert(data) == [reverts |-> TRUE, data |-> data]

VaultAddresses == {"0xA", "0xB", "0xC", "0xE", "0xEOA", "0xOLD"}

\* "0xA": 1 LiquidETH at $1000.  "0xB": 1 LiquidETH and 0.25 Unlisted token (no
\* quote for it), 400 USDC borrowed.  "0xC": 1 USDC, 0.4 USDC borrowed.
\* "0xE": an empty Safe.  "0xZ": 1 LiquidETH and a zero balance of USDC.
\* "0xEOA" is not a Safe; "0xOLD" reverts for another reason.
getSafeCashData(address) ==
  CASE address = "0xA" ->
         Safe(<<[token |-> LiquidETH, amount |-> BPow10(18)]>>, << >>,
              <<[token |-> LiquidETH, amount |-> 1000000000]>>,
              1000000000, 0, 500000000)
    [] address = "0xB" ->
         Safe(<<[token |-> LiquidETH, amount |-> BPow10(18)],
                [token |-> Unlisted, amount |-> BMulSmall(BPow10(16), 25)]>>,
              <<[token |-> USDC, amount |-> BMulSmall(BPow10(6), 400)]>>,
              <<[token |-> LiquidETH, amount |-> 1000000000],
                [token |-> USDC, amount |-> 1000000]>>,
              1000000000, 400000000, 500000000)
    [] address = "0xC" ->
         Safe(<<[token |-> USDC, amount |-> BPow10(6)]>>,
              <<[token |-> USDC, amount |-> BMulSmall(BPow10(5), 4)]>>,
              <<[token |-> USDC, amount |-> 1000000]>>,
              1000000, 400000, 900000)
    [] address = "0xE" -> Safe(<< >>, << >>, << >>, 0, 0, 0)
    [] address = "0xZ" ->
         Safe(<<[token |-> LiquidETH, amount |-> BPow10(18)],
                [token |-> USDC, amount |-> << >>]>>,
              << >>,
              <<[token |-> LiquidETH, amount |-> 1000000000],
                [token |-> USDC, amount |-> 1000000]>>,
              1000000000, 0, 500000000)
    [] address = "0xEOA" -> Revert(CONTRACT_ERRORS.INVALID_SAFE)
    [] OTHER -> Revert("0x")

\* ------------------------------------------------------------------------
\* api.js
\* ------------------------------------------------------------------------
RECURSIVE MetadataLoop(_, _, _)
MetadataLoop(tokens, i, metadataMap) ==
  IF i > Len(tokens) THEN metadataMap
  ELSE LET addr == tokens[i].token
           symbol == IF MapHas(TokenDecimals, addr) THEN "TOKEN" ELSE "UNKNOWN"
           decimals ==
             IF MapHas(TokenDecimals, addr) THEN MapGet(TokenDecimals, addr)
             ELSE DEFAULT_TOKEN_DECIMALS
       IN MetadataLoop(tokens, i + 1,
                       MapSet(metadataMap, toLowerCase(addr),
                              [symbol |-> symbol, decimals |-> decimals]))

\* multicallOk: whether the tryAggregate RPC call went through
fetchTokensMetadataBatch(tokens, multicallOk) ==
  IF tokens = << >> THEN << >>
  ELSE IF multicallOk THEN MetadataLoop(tokens, 1, << >>)
  ELSE << >>

\* The data object fetchSafeData builds from a reply
DataOf(rawData) ==
  [collateralBalances |-> rawData.collateralBalances,
   borrows |-> rawData.borrows,
   tokenPrices |-> rawData.tokenPrices,
   maxBorrow |-> rawData.maxBorrow,
   totalCollateral |-> rawData.totalCollateral,
   totalBorrow |-> rawData.totalBorrow]

\* The recalculation of fetchSafeData: metrics replace the contract's two
\* totals unless there is no collateral or the calculation threw (caught)
Recalculated(d, metrics) ==
  IF d.collateralBalances # << >> /\ ~metrics.threw
  THEN [d EXCEPT !.maxBorrow = metrics.maxBorrow,
                 !.totalCollateral = metrics.totalCollateral]
  ELSE d

\* The data object of a reply, its metrics recalculated
SafeData(rawData, multicallOk) ==
  Recalculated(DataOf(rawData),
               calculateVaultMetrics(
                 rawData.collateralBalances,
                 PriceLoop(rawData.tokenPrices, 1, << >>),
                 fetchTokensMetadataBatch(rawData.collateralBalances, multicallOk)))

\* fetchSafeData with one message for every revert
SafeReplyUntyped(rawData, multicallOk) ==
  IF rawData.reverts
  THEN [ok |-> FALSE, message |-> ERROR_MESSAGES.FETCH_FAILED]
  ELSE [ok |-> TRUE, data |-> SafeData(rawData, multicallOk)]

\* What fetchSafeData makes of the contract's answer
SafeReply(rawData, multicallOk) ==
  IF rawData.reverts
  THEN [ok |-> FALSE,
        message |-> IF rawData.data = CONTRACT_ERRORS.INVALID_SAFE
                    THEN ERROR_MESSAGES.INVALID_SAFE
                    ELSE ERROR_MESSAGES.FETCH_FAILED]
  ELSE [ok |-> TRUE, data |-> SafeData(rawData, multicallOk)]

\* rpc: "reply" when the RPC node answers, else the way the call failed
fetchSafeData(address, rpc, multicallOk) ==
  IF rpc = "reply"
  THEN SafeReply(getSafeCashData(address), multicallOk)
  ELSE IF rpc = "timeout"
  THEN [ok |-> FALSE, message |-> "request timeout"]
  ELSE [ok |-> FALSE, message |-> ERROR_MESSAGES.UNKNOWN]

RpcOutcomes == {"reply", "timeout", "no message"}

\* ------------------------------------------------------------------------
\* App.jsx.  null is the empty sequence, a present value a one-element one.
\* ------------------------------------------------------------------------
VARIABLES
  data,             \* useState(null): the fetched vault data
  loading,          \* useState(false)
  error,            \* useState(null)
  vaultAddress,     \* useState('')
  simulatedPrices,  \* useState({}): lowercased address -> price (6 decimals)
  metadataMap,      \* useState(new Map())
  pc,               \* where handleAddressSubmit stands: "idle" or the await
  result,           \* handleAddressSubmit's local result, while awaiting
  lastOverride,     \* history: asset -> the price last typed for it since the load
  isDragging,       \* RiskVisualizer: useState(false)
  dragBorrow,       \* RiskVisualizer: useState(null), the simulated debt
  memo,             \* useMemo of simulationData: the dependencies and the value kept
  call              \* the last direct call of a utility: [fn, args, ret]

appVars ==
  <<data, loading, error, vaultAddress, simulatedPrices, metadataMap, pc, result, lastOverride,
    isDragging, dragBorrow, memo>>
vars == <<appVars, call>>

Null == << >>
Some(x) == <<x>>

RECURSIVE EntriesOf(_, _)
EntriesOf(priceMap, i) ==
  IF i > Len(priceMap) THEN << >>
  ELSE <<[token |-> priceMap[i].key, amount |-> priceMap[i].val]>>
       \o EntriesOf(priceMap, i + 1)

\* The return of the useMemo body of simulationData: the simulated totals and
\* prices, or d itself without collateral or metadata or when the
\* calculation threw (caught)
Simulated(d, effectivePrices, metadata, metrics) ==
  IF d.collateralBalances # << >> /\ metadata # << >> /\ ~metrics.threw
  THEN Some([d EXCEPT !.maxBorrow = metrics.maxBorrow,
                      !.totalCollateral = metrics.totalCollateral,
                      !.tokenPrices = EntriesOf(effectivePrices, 1)])
  ELSE Some(d)

SimulatedAt(d, effectivePrices, metadata) ==
  Simulated(d, effectivePrices, metadata,
            calculateVaultMetrics(d.collateralBalances, effectivePrices, metadata))

\* The useMemo body of simulationData, for the three states it depends on
simulationDataOf(d, prices, metadata) ==
  IF d = Null THEN Null
  ELSE SimulatedAt(d[1], mergeSimulatedPrices(d[1].tokenPrices, prices), metadata)

simulationData == simulationDataOf(data, simulatedPrices, metadataMap)

\* useMemo with the dependency list [data] alone
useMemoOnData(cache, d, prices, metadata) ==
  IF d = cache.deps[1] THEN cache
  ELSE [deps |-> <<d, prices, metadata>>, value |-> simulationDataOf(d, prices, metadata)]

\* useMemo(..., [data, simulatedPrices, metadataMap]): the value of the last
\* render is kept while no dependency has changed, and recomputed otherwise
useMemo(cache, d, prices, metadata) ==
  IF <<d, prices, metadata>> = cache.deps THEN cache
  ELSE [deps |-> <<d, prices, metadata>>, value |-> simulationDataOf(d, prices, metadata)]

\* The render that follows a change of state
Rendered == memo' = useMemo(memo, data', simulatedPrices', metadataMap')

NoCall == [fn |-> "none"]

Init ==
  /\ data = Null
  /\ loading = FALSE
  /\ error = Null
  /\ vaultAddress = ""
  /\ simulatedPrices = << >>
  /\ metadataMap = << >>
  /\ pc = "idle"
  /\ result = Null
  /\ lastOverride = << >>
  /\ isDragging = FALSE
  /\ dragBorrow = Null
  /\ memo = [deps |-> <<Null, << >>, << >>>>, value |-> Null]
  /\ call = NoCall

\* RiskVisualizer is rendered under !loading && simulationData: its state
\* is gone when it leaves the screen, and initial when it comes (back) on
\* A RiskVisualizer whose state outlives its time on screen
useStateKept == UNCHANGED <<isDragging, dragBorrow>>

\* useState(false) and useState(null) of a RiskVisualizer not, or newly, on
\* screen
useStateInitial ==
  /\ isDragging' = FALSE
  /\ dragBorrow' = Null

Unmounted == useStateInitial

Mounted == useStateInitial

\* const dataId = data?.maxBorrow?.toString()
dataIdOf(view) == IF view = Null THEN Null ELSE Some(view[1].maxBorrow)

\* The reset effect of RiskVisualizer, run after a render in which dataId
\* changed: setDragBorrow(null)
resetEffect(dataIdBefore, dataIdAfter) ==
  dragBorrow' = IF dataIdAfter # dataIdBefore THEN Null ELSE dragBorrow

\* handleAddressSubmit without its setSimulatedPrices({})
handleAddressSubmitKeeping(address) ==
  /\ ~loading
  /\ loading' = TRUE
  /\ error' = Null
  /\ data' = Null
  /\ vaultAddress' = address
  /\ pc' = "fetchSafeData"
  /\ lastOverride' = << >>
  /\ Unmounted
  /\ UNCHANGED <<simulatedPrices, metadataMap, result, call>>
  /\ Rendered

\* handleAddressSubmit without its setError(null)
handleAddressSubmitKeepingError(address) ==
  /\ ~loading
  /\ loading' = TRUE
  /\ data' = Null
  /\ simulatedPrices' = << >>
  /\ vaultAddress' = address
  /\ pc' = "fetchSafeData"
  /\ lastOverride' = << >>
  /\ Unmounted
  /\ UNCHANGED <<error, metadataMap, result, call>>
  /\ Rendered

\* handleAddressSubmit without its setData(null)
handleAddressSubmitKeepingData(address) ==
  /\ ~loading
  /\ loading' = TRUE
  /\ error' = Null
  /\ simulatedPrices' = << >>
  /\ vaultAddress' = address
  /\ pc' = "fetchSafeData"
  /\ lastOverride' = << >>
  /\ Unmounted
  /\ UNCHANGED <<data, metadataMap, result, call>>
  /\ Rendered

\* handleAddressSubmit with a VaultInput that stays enabled while loading: a
\* submission made during the metadata fetch of the previous one, which
\* then runs to its end with the previous result
handleAddressSubmitWhileLoading(address) ==
  /\ loading' = TRUE
  /\ error' = Null
  /\ data' = Null
  /\ simulatedPrices' = << >>
  /\ vaultAddress' = address
  /\ pc' = IF pc = "idle" THEN "fetchSafeData" ELSE pc
  /\ lastOverride' = << >>
  /\ Unmounted
  /\ UNCHANGED <<metadataMap, result, call>>
  /\ Rendered

\* handleAddressSubmit up to its first await.  VaultInput disables its input
\* and its button while isLoading, so no submission starts during a fetch.
handleAddressSubmit(address) ==
  /\ ~loading
  /\ loading' = TRUE
  /\ error' = Null
  /\ data' = Null
  /\ simulatedPrices' = << >>
  /\ vaultAddress' = address
  /\ pc' = "fetchSafeData"
  /\ lastOverride' = << >>
  /\ Unmounted
  /\ UNCHANGED <<metadataMap, result, call>>
  /\ Rendered

\* The handler with setLoading(false) at the end of the try block, not in a
\* finally
fetchSafeDataSettledNoFinally(r) ==
  IF r.ok
  THEN /\ result' = Some(r.data)
       /\ pc' = "fetchTokensMetadataBatch"
       /\ UNCHANGED <<error, loading>>
  ELSE /\ error' = Some(r.message)
       /\ pc' = "idle"
       /\ UNCHANGED <<result, loading>>

\* The rest of the try block once fetchSafeData has settled with r; on a
\* rejection the catch and the finally blocks run
fetchSafeDataSettled(r) ==
  IF r.ok
  THEN /\ result' = Some(r.data)
       /\ pc' = "fetchTokensMetadataBatch"
       /\ UNCHANGED <<error, loading>>
  ELSE /\ error' = Some(r.message)
       /\ loading' = FALSE
       /\ pc' = "idle"
       /\ UNCHANGED result

\* await fetchSafeData(address) settles
fetchSafeDataSettles(rpc, multicallOk) ==
  /\ pc = "fetchSafeData"
  /\ fetchSafeDataSettled(fetchSafeData(vaultAddress, rpc, multicallOk))
  /\ UNCHANGED <<data, vaultAddress, simulatedPrices, metadataMap, lastOverride,
                 isDragging, dragBorrow, memo, call>>

\* The initialPrices loop keying each price by p.token as spelled
RECURSIVE InitialPricesAsSpelled(_, _, _)
InitialPricesAsSpelled(tokenPrices, i, initialPrices) ==
  IF i > Len(tokenPrices) THEN initialPrices
  ELSE InitialPricesAsSpelled(tokenPrices, i + 1,
                              MapSet(initialPrices, tokenPrices[i].token,
                                     tokenPrices[i].amount))

RECURSIVE InitialPrices(_, _, _)
InitialPrices(tokenPrices, i, initialPrices) ==
  IF i > Len(tokenPrices) THEN initialPrices
  ELSE InitialPrices(tokenPrices, i + 1,
                     MapSet(initialPrices, toLowerCase(tokenPrices[i].token),
                            tokenPrices[i].amount))

\* The rest of the handler without its setSimulatedPrices(initialPrices)
fetchTokensMetadataBatchSettlesUnseeded(multicallOk) ==
  /\ pc = "fetchTokensMetadataBatch"
  /\ metadataMap' = fetchTokensMetadataBatch(result[1].collateralBalances, multicallOk)
  /\ data' = result
  /\ loading' = FALSE
  /\ pc' = "idle"
  /\ result' = Null
  /\ Mounted
  /\ UNCHANGED <<simulatedPrices, error, vaultAddress, lastOverride, call>>
  /\ Rendered

\* await fetchTokensMetadataBatch(...) settles and the handler runs to its end
fetchTokensMetadataBatchSettles(multicallOk) ==
  /\ pc = "fetchTokensMetadataBatch"
  /\ metadataMap' = fetchTokensMetadataBatch(result[1].collateralBalances, multicallOk)
  /\ simulatedPrices' = InitialPrices(result[1].tokenPrices, 1, << >>)
  /\ data' = result
  /\ loading' = FALSE
  /\ pc' = "idle"
  /\ result' = Null
  /\ Mounted
  /\ UNCHANGED <<error, vaultAddress, lastOverride, call>>
  /\ Rendered

\* The collateral TokenList has a row, and a price to edit, per collateral
\* position
Listed(tokenAddress) ==
  /\ data # Null
  /\ \E i \in DOMAIN data[1].collateralBalances :
       toLowerCase(data[1].collateralBalances[i].token) = toLowerCase(tokenAddress)

\* handlePriceChange reachable with no vault on screen
handlePriceChangeUnguarded(tokenAddress, newPriceUSD) ==
  /\ ~loading
  /\ simulatedPrices' = MapSet(simulatedPrices, toLowerCase(tokenAddress),
                               toUSDScaled(newPriceUSD))
  /\ lastOverride' = MapSet(lastOverride, toLowerCase(tokenAddress), newPriceUSD)
  /\ UNCHANGED <<data, loading, error, vaultAddress, metadataMap, pc, result, isDragging, call>>
  /\ Rendered
  /\ resetEffect(dataIdOf(memo.value), dataIdOf(memo'.value))

\* handlePriceChange writing the price into the fetched data as well
handlePriceChangeInPlace(tokenAddress, newPriceUSD) ==
  /\ ~loading
  /\ Listed(tokenAddress)
  /\ LET scaledPrice == toUSDScaled(newPriceUSD)
     IN /\ simulatedPrices' =
             MapSet(simulatedPrices, toLowerCase(tokenAddress), scaledPrice)
        /\ data' = Some([data[1] EXCEPT !.tokenPrices =
                           [i \in DOMAIN data[1].tokenPrices |->
                              IF toLowerCase(data[1].tokenPrices[i].token)
                                   = toLowerCase(tokenAddress)
                              THEN [data[1].tokenPrices[i] EXCEPT !.amount = scaledPrice]
                              ELSE data[1].tokenPrices[i]]])
  /\ lastOverride' = MapSet(lastOverride, toLowerCase(tokenAddress), newPriceUSD)
  /\ UNCHANGED <<loading, error, vaultAddress, metadataMap, pc, result, isDragging, call>>
  /\ Rendered
  /\ resetEffect(dataIdOf(memo.value), dataIdOf(memo'.value))

\* handlePriceChange keying the override by tokenAddress as spelled
handlePriceChangeAsSpelled(tokenAddress, newPriceUSD) ==
  /\ ~loading
  /\ Listed(tokenAddress)
  /\ LET scaledPrice == toUSDScaled(newPriceUSD)
     IN simulatedPrices' = MapSet(simulatedPrices, tokenAddress, scaledPrice)
  /\ lastOverride' = MapSet(lastOverride, toLowerCase(tokenAddress), newPriceUSD)
  /\ UNCHANGED <<data, loading, error, vaultAddress, metadataMap, pc, result, isDragging, call>>
  /\ Rendered
  /\ resetEffect(dataIdOf(memo.value), dataIdOf(memo'.value))

\* handlePriceChange, which the collateral TokenList receives as
\* onPriceChange: it is rendered only when !loading && simulationData
handlePriceChange(tokenAddress, newPriceUSD) ==
  /\ ~loading
  /\ Listed(tokenAddress)
  /\ LET scaledPrice == toUSDScaled(newPriceUSD)
     IN simulatedPrices' = MapSet(simulatedPrices, toLowerCase(tokenAddress), scaledPrice)
  /\ lastOverride' = MapSet(lastOverride, toLowerCase(tokenAddress), newPriceUSD)
  /\ UNCHANGED <<data, loading, error, vaultAddress, metadataMap, pc, result, isDragging, call>>
  /\ Rendered
  /\ resetEffect(dataIdOf(memo.value), dataIdOf(memo'.value))

\* What the mounted RiskVisualizer shows
riskView == RiskVisualizer(memo.value[1], dragBorrow)

\* handleMouseDown on the gauge handle
handleMouseDown ==
  /\ ~loading
  /\ data # Null
  /\ isDragging' = TRUE
  /\ dragBorrow' = Some(riskView.displayBorrow)
  /\ UNCHANGED <<data, loading, error, vaultAddress, simulatedPrices, metadataMap, pc, result,
                 lastOverride, memo, call>>

\* The percentage without its Math.min(1, ...)
percentageOfUncapped(x, width) ==
  IF x <= 0 THEN FZero
  ELSE FDiv(FromInt(x), FromInt(width))

\* Math.max(0, Math.min(1, x / rect.width)) for a pointer x pixels right of
\* the track's left edge
percentageOf(x, width) ==
  IF x <= 0 THEN FZero
  ELSE IF x >= width THEN FromInt(1)
  ELSE FDiv(FromInt(x), FromInt(width))

\* handleMouseMove, listening while isDragging
handleMouseMove(x, width) ==
  /\ ~loading
  /\ data # Null
  /\ isDragging
  /\ dragBorrow' = IF FIsZero(riskView.maxBorrow) THEN dragBorrow
                   ELSE Some(FMul(percentageOf(x, width), riskView.maxBorrow))
  /\ UNCHANGED <<data, loading, error, vaultAddress, simulatedPrices, metadataMap, pc, result,
                 lastOverride, isDragging, memo, call>>

\* handleMouseUp giving the dragged value up
handleMouseUpReverting ==
  /\ ~loading
  /\ data # Null
  /\ isDragging
  /\ isDragging' = FALSE
  /\ dragBorrow' = Null
  /\ UNCHANGED <<data, loading, error, vaultAddress, simulatedPrices, metadataMap, pc, result,
                 lastOverride, memo, call>>

\* handleMouseUp, listening while isDragging: the dragged value stays
handleMouseUp ==
  /\ ~loading
  /\ data # Null
  /\ isDragging
  /\ isDragging' = FALSE
  /\ UNCHANGED <<data, loading, error, vaultAddress, simulatedPrices, metadataMap, pc, result,
                 lastOverride, dragBorrow, memo, call>>

\* Pointer positions <<x, rect.width>>: left of the track, on it, right of it
MousePositions == {<<0 - 50, 500>>, <<250, 500>>, <<450, 500>>, <<600, 500>>}

\* The prices a user types: 1500, 500 and 1234.5678
PriceInputs == {FromInt(1500), FromInt(500), FDec(12345678, 4)}

\* The spellings under which a price can be edited
Spellings == {LiquidETH, toLowerCase(LiquidETH), Unlisted, USDC}

Next ==
  \/ \E address \in VaultAddresses : handleAddressSubmit(address)
  \/ \E rpc \in RpcOutcomes, multicallOk \in BOOLEAN : fetchSafeDataSettles(rpc, multicallOk)
  \/ \E multicallOk \in BOOLEAN : fetchTokensMetadataBatchSettles(multicallOk)
  \/ \E tokenAddress \in Spellings, newPriceUSD \in PriceInputs :
       handlePriceChange(tokenAddress, newPriceUSD)
  \/ handleMouseDown
  \/ \E position \in MousePositions : handleMouseMove(position[1], position[2])
  \/ handleMouseUp

Spec == Init /\ [][Next]_vars

\* The step in which the promise handleAddressSubmit awaits settles and the
\* handler resumes: it moves on to its next await or runs to its end
AwaitSettles ==
  /\ pc # "idle"
  /\ pc' \in {"fetchTokensMetadataBatch", "idle"}
  /\ pc' # pc

\* The session when every fetch awaited completes, one way or the other
SpecFetchesComplete == Spec /\ WF_pc(AwaitSettles)

\* ------------------------------------------------------------------------
\* The utilities and the RiskVisualizer render called directly, the way
\* calculations.test.js and the components call them: call records the
\* function, its arguments and what it returned (one call per behaviour).
\* ------------------------------------------------------------------------
wETH == <<"5", "3">>
SCR == <<"d", "2">>

Position(token, amount) == [token |-> token, amount |-> amount]

\* 1/3 of a token of 18 decimals: 333333333333333333
Third == BDivMod(BPow10(18), BFromInt(3)).q

TokenLists ==
  { << >>,
    <<Position(LiquidETH, BPow10(18))>>,
    <<Position(Unlisted, BPow10(18))>>,
    <<Position(LiquidETH, BPow10(18)), Position(Unlisted, BMulSmall(BPow10(16), 25))>>,
    <<Position(LiquidETH, << >>)>>,
    <<Position(LiquidETH, BPow10(18)), Position(USDC, << >>)>>,
    <<Position(wETH, Third), Position(USDC, BFromInt(1234567))>>,
    <<Position(SCR, BFromInt(3))>> }

QuoteLists ==
  { << >>,
    <<Position(LiquidETH, 1000000000)>>,
    <<Position(LiquidETH, 1000000000), Position(toLowerCase(LiquidETH), 1200000000)>>,
    <<Position(LiquidETH, 1000000000), Position(Unlisted, 1000000000)>>,
    <<Position(LiquidETH, 1000000000), Position(Unlisted, 1234567),
      Position(wETH, 1999990000), Position(USDC, 999900), Position(SCR, 10000000)>> }

Metadata(token, decimals) ==
  [key |-> toLowerCase(token), val |-> [symbol |-> "TOKEN", decimals |-> decimals]]

MetadataMaps ==
  { << >>,
    <<Metadata(LiquidETH, 18), Metadata(Unlisted, 18), Metadata(wETH, 18),
      Metadata(USDC, 6), Metadata(SCR, 0)>> }

Override(addr, price) == [key |-> addr, val |-> price]

OverrideSets ==
  { << >>,
    <<Override(toLowerCase(LiquidETH), 1500000000)>>,
    <<Override(LiquidETH, 1500000000)>>,
    <<Override(toLowerCase(Unlisted), 500000000)>>,
    <<Override(toLowerCase(LiquidETH), 1500000000),
      Override(toLowerCase(Unlisted), 500000000)>> }

\* Whole dollars, and the same in micro-dollars
Dollars == {0, 300, 400, 450, 500, 800, 1000, 1200}
MicroDollars == {d * PRICE_MULTIPLIER : d \in Dollars}

\* Whole micro-dollar values: the small ones, and those of the tests
ScaledInputs == (0..300) \cup {1000000, 1500000, 5000000, 123456789, 1999999999}

\* Dollar values as Numbers: thousandths up to 0.05, those of the tests, and
\* what toUSDFloat makes of the whole micro-dollar values
FloatInputs ==
  {FDec(k, 3) : k \in 0..50}
    \cup {FromInt(1), FDec(15, 1), FDec(1, 6), FDec(10000001, 7), FDec(19999999, 7),
          FDec(12345678, 4)}
    \cup {toUSDFloat(v) : v \in ScaledInputs}

Call_toUSDFloat(value) ==
  /\ call = NoCall
  /\ call' = [fn |-> "toUSDFloat", args |-> <<value>>, ret |-> toUSDFloat(value)]
  /\ UNCHANGED appVars

Call_toUSDScaled(value) ==
  /\ call = NoCall
  /\ call' = [fn |-> "toUSDScaled", args |-> <<value>>, ret |-> toUSDScaled(value)]
  /\ UNCHANGED appVars

Call_calculateVaultMetrics(collateralTokens, priceMap, metadata) ==
  /\ call = NoCall
  /\ call' = [fn |-> "calculateVaultMetrics",
              args |-> <<collateralTokens, priceMap, metadata>>,
              ret |-> calculateVaultMetrics(collateralTokens, priceMap, metadata)]
  /\ UNCHANGED appVars

\* The addresses fetchSafeData is called with
FetchAddresses == VaultAddresses \cup {"0xZ"}

Call_fetchSafeData(address, rpc, multicallOk) ==
  /\ call = NoCall
  /\ call' = [fn |-> "fetchSafeData", args |-> <<address, rpc, multicallOk>>,
              ret |-> fetchSafeData(address, rpc, multicallOk)]
  /\ UNCHANGED appVars

Call_buildPriceMap(tokenPrices) ==
  /\ call = NoCall
  /\ call' = [fn |-> "buildPriceMap", args |-> <<tokenPrices>>,
              ret |-> buildPriceMap(tokenPrices)]
  /\ UNCHANGED appVars

Call_mergeSimulatedPrices(originalPrices, overrides) ==
  /\ call = NoCall
  /\ call' = [fn |-> "mergeSimulatedPrices", args |-> <<originalPrices, overrides>>,
              ret |-> mergeSimulatedPrices(originalPrices, overrides)]
  /\ UNCHANGED appVars

Call_calculateHealthFactor(currentBorrow, maxBorrow) ==
  /\ call = NoCall
  /\ call' = [fn |-> "calculateHealthFactor", args |-> <<currentBorrow, maxBorrow>>,
              ret |-> calculateHealthFactor(currentBorrow, maxBorrow)]
  /\ UNCHANGED appVars

Call_calculateLTV(currentBorrow, totalCollateral) ==
  /\ call = NoCall
  /\ call' = [fn |-> "calculateLTV", args |-> <<currentBorrow, totalCollateral>>,
              ret |-> calculateLTV(currentBorrow, totalCollateral)]
  /\ UNCHANGED appVars

\* A first render of RiskVisualizer (nothing dragged) for a data prop
Call_RiskVisualizer(d) ==
  /\ call = NoCall
  /\ call' = [fn |-> "RiskVisualizer", args |-> <<d, Null>>,
              ret |-> RiskVisualizer(d, Null)]
  /\ UNCHANGED appVars

\* The simulationData memo for a fetched vault, an override set and a
\* metadata map
Call_simulationData(d, overrides, metadata) ==
  /\ call = NoCall
  /\ call' = [fn |-> "simulationData", args |-> <<Some(d), overrides, metadata>>,
              ret |-> simulationDataOf(Some(d), overrides, metadata)]
  /\ UNCHANGED appVars

NextCalc ==
  \/ \E value \in ScaledInputs : Call_toUSDFloat(value)
  \/ \E value \in FloatInputs : Call_toUSDScaled(value)
  \/ \E collateralTokens \in TokenLists, tokenPrices \in QuoteLists,
        metadata \in MetadataMaps :
       Call_calculateVaultMetrics(collateralTokens, buildPriceMap(tokenPrices), metadata)
  \/ \E tokenPrices \in QuoteLists : Call_buildPriceMap(tokenPrices)
  \/ \E address \in FetchAddresses, rpc \in RpcOutcomes, multicallOk \in BOOLEAN :
       Call_fetchSafeData(address, rpc, multicallOk)
  \/ \E originalPrices \in QuoteLists, overrides \in OverrideSets :
       Call_mergeSimulatedPrices(originalPrices, overrides)
  \/ \E currentBorrow \in Dollars, maxBorrow \in Dollars :
       Call_calculateHealthFactor(FromInt(currentBorrow), FromInt(maxBorrow))
  \/ \E currentBorrow \in Dollars, totalCollateral \in Dollars :
       Call_calculateLTV(FromInt(currentBorrow), FromInt(totalCollateral))
  \/ \E totalBorrow \in MicroDollars, maxBorrow \in MicroDollars :
       Call_RiskVisualizer([maxBorrow |-> maxBorrow, totalBorrow |-> totalBorrow,
                            totalCollateral |-> maxBorrow])
  \/ \E address \in {"0xA", "0xB", "0xC", "0xE"}, overrides \in OverrideSets,
        multicallOk \in BOOLEAN :
       Call_simulationData(fetchSafeData(address, "reply", TRUE).data, overrides,
                           fetchTokensMetadataBatch(
                             getSafeCashData(address).collateralBalances, multicallOk))

SpecCalc == Init /\ [][NextCalc]_vars

\* ------------------------------------------------------------------------
\* Properties
\* ------------------------------------------------------------------------
LtvInRange == \A i \in DOMAIN LTV_CONFIG : LTV_CONFIG[i].val \in 0..100

\* C1: when every configured LTV percent is between 0 and 100, every result
\* of calculateVaultMetrics has maxBorrow <= totalCollateral, and so has
\* every derived view (simulationData) under every set of price overrides.
MaxBorrowWithinCollateral ==
  LtvInRange =>
    /\ (call.fn = "calculateVaultMetrics" /\ ~call.ret.threw)
         => call.ret.maxBorrow <= call.ret.totalCollateral
    /\ call.fn = "simulationData"
         => call.ret[1].maxBorrow <= call.ret[1].totalCollateral

\* A derived view of a vault of 1 LiquidETH with its price overridden to
\* $1500: it may borrow $750 against $1500
MaxBorrowWithinCollateralWitness ==
  /\ call.fn = "simulationData"
  /\ call.args[2] = <<Override(toLowerCase(LiquidETH), 1500000000)>>
  /\ call.args[3] # << >>
  /\ call.ret[1].maxBorrow = 750000000
  /\ call.ret[1].totalCollateral = 1500000000

\* The decimals the claimed sums divide by: the asset's own, 18 without
\* metadata
ClaimedDecimals(metadata, tokenAddr) ==
  IF MapHas(metadata, tokenAddr) THEN MapGet(metadata, tokenAddr).decimals
  ELSE DEFAULT_TOKEN_DECIMALS

\* (amount / 10^decimals) * (price / 1e6) of a position
ClaimedValue(token, priceMap, metadata) ==
  FMul(FQuot(token.amount, BPow10(ClaimedDecimals(metadata, toLowerCase(token.token))), 0),
       FDiv(FromInt(IF MapHas(priceMap, toLowerCase(token.token))
                    THEN MapGet(priceMap, toLowerCase(token.token)) ELSE 0),
            FromInt(1000000)))

ClaimedLtv(token) ==
  IF MapHas(LTV_CONFIG, toLowerCase(token.token))
  THEN MapGet(LTV_CONFIG, toLowerCase(token.token)) ELSE 0

ClaimedAdd(value, token, sums) ==
  [maxBorrow |-> FAdd(sums.maxBorrow, FMul(value, FDiv(FromInt(ClaimedLtv(token)), FromInt(100)))),
   totalCollateral |-> FAdd(sums.totalCollateral, value)]

\* The two sums over the positions from i on, added in sequence order
RECURSIVE ClaimedSums(_, _, _, _, _)
ClaimedSums(collateralTokens, i, priceMap, metadata, sums) ==
  IF i > Len(collateralTokens) THEN sums
  ELSE Then(sums,
            ClaimedSums(collateralTokens, i + 1, priceMap, metadata,
                        ClaimedAdd(ClaimedValue(collateralTokens[i], priceMap, metadata),
                                   collateralTokens[i], sums)))

ClaimedFloor(sums) ==
  [maxBorrow |-> BToInt(FFloor(FMul(sums.maxBorrow, FromInt(1000000)))),
   totalCollateral |-> BToInt(FFloor(FMul(sums.totalCollateral, FromInt(1000000))))]

ClaimedMetrics(collateralTokens, priceMap, metadata) ==
  ClaimedFloor(ClaimedSums(collateralTokens, 1, priceMap, metadata,
                           [maxBorrow |-> FZero, totalCollateral |-> FZero]))

ReturnsClaimed(ret, claimed) ==
  /\ ~ret.threw
  /\ ret.totalCollateral = claimed.totalCollateral
  /\ ret.maxBorrow = claimed.maxBorrow

\* C2: calculateVaultMetrics returns totalCollateral = floor(1e6 * sum of
\* (amount / 10^decimals) * (price / 1e6)) and maxBorrow = floor(1e6 * sum of
\* value * ltv / 100) over the positions, an absent price counting as 0 and an
\* asset without LTV entry as ltv 0.
MetricsAreTheClaimedSums ==
  call.fn = "calculateVaultMetrics"
    => ReturnsClaimed(call.ret, ClaimedMetrics(call.args[1], call.args[2], call.args[3]))

\* C3: no sequence of price overrides and derivations changes the loaded
\* snapshot: while a vault is loaded, data is what was fetched for
\* vaultAddress, its price list, collateral and debt positions included.
SnapshotAsFetched ==
  data # Null =>
    /\ ~getSafeCashData(vaultAddress).reverts
    /\ data[1].tokenPrices = getSafeCashData(vaultAddress).tokenPrices
    /\ data[1].collateralBalances = getSafeCashData(vaultAddress).collateralBalances
    /\ data[1].borrows = getSafeCashData(vaultAddress).borrows
    /\ \E multicallOk \in BOOLEAN :
         data[1] = fetchSafeData(vaultAddress, "reply", multicallOk).data

\* A price has been overridden, and the derived view shows prices other than
\* the snapshot's
SnapshotAsFetchedWitness ==
  /\ data # Null
  /\ lastOverride # << >>
  /\ simulationData[1].tokenPrices # data[1].tokenPrices
  /\ simulationData[1].totalCollateral # data[1].totalCollateral

\* The greatest element of a non-empty set of integers
Last(S) == CHOOSE i \in S : \A j \in S : j <= i

QuotesOf(tokenPrices, tokenAddr) ==
  {i \in DOMAIN tokenPrices : toLowerCase(tokenPrices[i].token) = tokenAddr}

\* The price the quotes give an asset: that of its last quote, 0 without one
QuotedPrice(tokenPrices, tokenAddr) ==
  IF QuotesOf(tokenPrices, tokenAddr) = {} THEN 0
  ELSE tokenPrices[Last(QuotesOf(tokenPrices, tokenAddr))].amount

\* An asset's most recent override price if one was set since the load, its
\* snapshot price otherwise
LatestPrice(tokenAddr) ==
  IF MapHas(lastOverride, tokenAddr)
  THEN toUSDScaled(MapGet(lastOverride, tokenAddr))
  ELSE QuotedPrice(data[1].tokenPrices, tokenAddr)

\* The latest price of every collateral asset, as a price map
LatestPrices ==
  [i \in DOMAIN data[1].collateralBalances |->
     [key |-> toLowerCase(data[1].collateralBalances[i].token),
      val |-> LatestPrice(toLowerCase(data[1].collateralBalances[i].token))]]

MetadataResolved ==
  \A i \in DOMAIN data[1].collateralBalances :
    MapHas(metadataMap, toLowerCase(data[1].collateralBalances[i].token))

SameTotals(view, metrics) ==
  /\ ~metrics.threw
  /\ view.totalCollateral = metrics.totalCollateral
  /\ view.maxBorrow = metrics.maxBorrow

\* C4: once a vault is loaded with metadata resolved for its collateral, and
\* after any sequence of price overrides, the derived totalCollateral and
\* maxBorrow are calculateVaultMetrics of the snapshot's collateral at, for
\* each asset, its most recent override price if one was set and its snapshot
\* price otherwise.
DerivedAtLatestPrices ==
  (data # Null /\ data[1].collateralBalances # << >> /\ MetadataResolved)
    => SameTotals(simulationData[1],
                  calculateVaultMetrics(data[1].collateralBalances, LatestPrices,
                                        metadataMap))

\* 1 LiquidETH (LTV 50) quoted $1000 and overridden to $1500: 1500 and 750
DerivedAtLatestPricesWitness ==
  /\ data # Null
  /\ vaultAddress = "0xA"
  /\ metadataMap # << >>
  /\ data[1].tokenPrices = <<Position(LiquidETH, 1000000000)>>
  /\ lastOverride = <<Override(toLowerCase(LiquidETH), FromInt(1500))>>
  /\ simulationData[1].totalCollateral = 1500000000
  /\ simulationData[1].maxBorrow = 750000000

MergedAsClaimed(originalPrices, overrides, merged) ==
  /\ \A i \in DOMAIN overrides :
       /\ MapHas(merged, overrides[i].key)
       /\ MapGet(merged, overrides[i].key) = overrides[i].val
  /\ \A i \in DOMAIN originalPrices :
       ~MapHas(overrides, toLowerCase(originalPrices[i].token))
         => /\ MapHas(merged, toLowerCase(originalPrices[i].token))
            /\ MapGet(merged, toLowerCase(originalPrices[i].token))
                 = QuotedPrice(originalPrices, toLowerCase(originalPrices[i].token))
  /\ MapKeys(merged)
       = {toLowerCase(originalPrices[i].token) : i \in DOMAIN originalPrices}
         \cup MapKeys(overrides)
  /\ Len(merged) = Cardinality(MapKeys(merged))
  /\ overrides = << >> => merged = buildPriceMap(originalPrices)

\* C5: mergeSimulatedPrices maps each asset to its override price when the
\* override set has an entry for it and to its base price otherwise, and to
\* nothing else; merging with an empty override set yields the base mapping.
MergeOverridesThatAssetOnly ==
  call.fn = "mergeSimulatedPrices"
    => MergedAsClaimed(call.args[1], call.args[2], call.ret)

\* Two assets quoted at $1000, the first overridden to $1500
MergeOverridesThatAssetOnlyWitness ==
  /\ call.fn = "mergeSimulatedPrices"
  /\ call.args[1] = <<Position(LiquidETH, 1000000000), Position(Unlisted, 1000000000)>>
  /\ call.args[2] = <<Override(toLowerCase(LiquidETH), 1500000000)>>
  /\ MapGet(call.ret, toLowerCase(LiquidETH)) = 1500000000
  /\ MapGet(call.ret, toLowerCase(Unlisted)) = 1000000000

MergedCanonically(overrides, merged) ==
  /\ \A i \in DOMAIN overrides :
       /\ MapHas(merged, toLowerCase(overrides[i].key))
       /\ MapGet(merged, toLowerCase(overrides[i].key)) = overrides[i].val
  /\ \A i, j \in DOMAIN merged :
       toLowerCase(merged[i].key) = toLowerCase(merged[j].key) => i = j

\* C6: mergeSimulatedPrices canonicalizes the keys of the override set: an
\* override under any letter-case spelling of an address replaces the base
\* price of that address, and the merged mapping never holds two entries for
\* two spellings of one address.
MergeCanonicalizesOverrides ==
  call.fn = "mergeSimulatedPrices" => MergedCanonically(call.args[2], call.ret)

BuiltAsClaimed(tokenPrices, priceMap) ==
  /\ \A k \in MapKeys(priceMap) : k = toLowerCase(k)
  /\ MapKeys(priceMap) = {toLowerCase(tokenPrices[i].token) : i \in DOMAIN tokenPrices}
  /\ Len(priceMap) = Cardinality(MapKeys(priceMap))
  /\ \A i \in DOMAIN tokenPrices :
       /\ tokenPrices[i].token # toLowerCase(tokenPrices[i].token)
            => ~MapHas(priceMap, tokenPrices[i].token)
       /\ MapGet(priceMap, toLowerCase(tokenPrices[i].token))
            = QuotedPrice(tokenPrices, toLowerCase(tokenPrices[i].token))

\* C7: buildPriceMap keys every quote by the lowercased asset address, never
\* by a mixed-case spelling, and of several quotes for one canonical address
\* keeps the price of the last.
BuildKeysByLowercaseLastWins ==
  call.fn = "buildPriceMap" => BuiltAsClaimed(call.args[1], call.ret)

\* Two quotes for two spellings of one address: one entry, the later price
BuildKeysByLowercaseLastWinsWitness ==
  /\ call.fn = "buildPriceMap"
  /\ call.args[1] = <<Position(LiquidETH, 1000000000),
                      Position(toLowerCase(LiquidETH), 1200000000)>>
  /\ LiquidETH # toLowerCase(LiquidETH)
  /\ call.ret = <<Override(toLowerCase(LiquidETH), 1200000000)>>

\* debt / limit when limit > 0 and 0 otherwise, above 1 when debt > limit > 0
RatioAsClaimed(debt, limit, ratio) ==
  /\ ratio = IF FLt(FZero, limit) THEN FQuot(debt.m, limit.m, debt.e - limit.e) ELSE FZero
  /\ (FLt(FZero, limit) /\ FLt(limit, debt)) => FLt(FromInt(1), ratio)
  /\ (debt = FromInt(400) /\ limit = FromInt(800)) => ratio = FDec(5, 1)
  /\ (debt = FromInt(400) /\ limit = FromInt(1000)) => ratio = FDec(4, 1)

\* C8: calculateHealthFactor returns debt / maxBorrow when maxBorrow > 0 and 0
\* otherwise, calculateLTV debt / totalCollateral when totalCollateral > 0 and
\* 0 otherwise; neither is clamped, both exceed 1 for an over-borrowed
\* position.
RatiosUnclamped ==
  call.fn \in {"calculateHealthFactor", "calculateLTV"}
    => RatioAsClaimed(call.args[1], call.args[2], call.ret)

\* $1200 borrowed against a maximum of $800: a health factor of 1.5
RatiosUnclampedWitness ==
  /\ call.fn = "calculateHealthFactor"
  /\ call.args = <<FromInt(1200), FromInt(800)>>
  /\ call.ret = FDec(15, 1)

LevelAsClaimed(healthFactor, riskColor) ==
  riskColor = IF FLt(healthFactor, FDec(6, 1)) THEN "var(--success)"
              ELSE IF FLt(healthFactor, FDec(8, 1)) THEN "var(--warning)"
              ELSE "var(--danger)"

\* C9: the risk level follows the health factor with inclusive lower bounds:
\* below the warning threshold (0.6) SAFE, from it and below the danger
\* threshold (0.8) WARNING, from the danger threshold on DANGER.
LevelBoundsInclusive ==
  call.fn = "RiskVisualizer"
    => LevelAsClaimed(call.ret.healthFactor, call.ret.riskColor)

\* $300 borrowed of a maximum of $500: exactly 0.6, WARNING
LevelBoundsInclusiveWitness ==
  /\ call.fn = "RiskVisualizer"
  /\ call.args[1].totalBorrow = 300000000
  /\ call.args[1].maxBorrow = 500000000
  /\ call.ret.healthFactor = FDec(6, 1)
  /\ call.ret.riskColor = "var(--warning)"

AlertAsClaimed(view) ==
  /\ ~FLt(view.healthFactor, FDec(9, 1)) => view.riskAlert
  /\ view.riskAlert => view.riskColor = "var(--danger)"

\* C10: the critical alert is raised whenever the health factor is at or
\* above the critical threshold (0.9), and whenever it is raised the level is
\* DANGER.
AlertFromCriticalOn ==
  call.fn = "RiskVisualizer" => AlertAsClaimed(call.ret)

\* ret is the largest integer not above the Number product
FloorOf(product, ret) ==
  /\ FLe(FromInt(ret), product)
  /\ FLt(product, FromInt(ret + 1))

\* C11: toUSDScaled floors and never rounds up: its result is the largest
\* integer not above value * 1000000 (the Number the product is), and
\* toUSDScaled(1.9999999) is 1999999.
ScaledIsFloor ==
  call.fn = "toUSDScaled"
    => /\ FloorOf(FMul(call.args[1], FromInt(1000000)), call.ret)
       /\ call.args[1] = FDec(19999999, 7) => call.ret = 1999999

\* 1.9999999 scaled to 1999999
ScaledIsFloorWitness ==
  /\ call.fn = "toUSDScaled"
  /\ call.args[1] = FDec(19999999, 7)
  /\ call.ret = 1999999

\* C12: for every whole micro-dollar value v >= 0,
\* toUSDScaled(toUSDFloat(v)) = v.
ScaledRoundTrip ==
  call.fn = "toUSDScaled"
    => \A v \in ScaledInputs : call.args[1] = toUSDFloat(v) => call.ret = v

\* prices holds exactly the quotes of tokenPrices, by lowercased address
SeededFrom(tokenPrices, prices) ==
  /\ MapKeys(prices) = {toLowerCase(tokenPrices[i].token) : i \in DOMAIN tokenPrices}
  /\ Len(prices) = Cardinality(MapKeys(prices))
  /\ \A i \in DOMAIN tokenPrices :
       MapGet(prices, toLowerCase(tokenPrices[i].token))
         = QuotedPrice(tokenPrices, toLowerCase(tokenPrices[i].token))

SameView(view, other) ==
  /\ view.totalCollateral = other.totalCollateral
  /\ view.maxBorrow = other.maxBorrow

\* C13: a load replaces the snapshot and the metadata and seeds the override
\* set with exactly the snapshot's own prices: after a load and before any
\* override the derived metrics are those computed from the snapshot's prices.
LoadSeedsSnapshotPrices ==
  (data # Null /\ lastOverride = << >>)
    => /\ \E multicallOk \in BOOLEAN :
            data[1] = fetchSafeData(vaultAddress, "reply", multicallOk).data
       /\ \E multicallOk \in BOOLEAN :
            metadataMap = fetchTokensMetadataBatch(data[1].collateralBalances, multicallOk)
       /\ SeededFrom(data[1].tokenPrices, simulatedPrices)
       /\ SameView(simulationData[1], simulationDataOf(data, << >>, metadataMap)[1])
       /\ (data[1].collateralBalances # << >> /\ metadataMap # << >>)
            => SameTotals(simulationData[1],
                          calculateVaultMetrics(data[1].collateralBalances,
                                                buildPriceMap(data[1].tokenPrices),
                                                metadataMap))

\* Vault 0xB just loaded: two quotes seeded, metadata resolved
LoadSeedsSnapshotPricesWitness ==
  /\ data # Null
  /\ lastOverride = << >>
  /\ vaultAddress = "0xB"
  /\ metadataMap # << >>
  /\ Len(simulatedPrices) = 2
  /\ simulationData[1].maxBorrow = 500000000

\* C14: submitting a new vault address empties the override set and leaves
\* the session without vault data until the new fetch completes; the override
\* set of the next loaded vault holds nothing but that vault's own quotes and
\* the overrides made since its load.
SubmitDiscardsOverrides ==
  /\ data = Null => simulatedPrices = << >>
  /\ loading => data = Null
  /\ data # Null =>
       \A i \in DOMAIN simulatedPrices :
         simulatedPrices[i].val = LatestPrice(simulatedPrices[i].key)

\* A new address was submitted for a session that held a vault (its metadata
\* is still there): the override set is empty while the fetch runs
SubmitDiscardsOverridesWitness ==
  /\ loading
  /\ metadataMap # << >>
  /\ data = Null
  /\ simulatedPrices = << >>

OverrideKeysCanonical ==
  /\ \A i \in DOMAIN simulatedPrices :
       simulatedPrices[i].key = toLowerCase(simulatedPrices[i].key)
  /\ \A i, j \in DOMAIN simulatedPrices :
       toLowerCase(simulatedPrices[i].key) = toLowerCase(simulatedPrices[j].key) => i = j

\* A vault whose quote spells LiquidETH in mixed case, seeded and overridden
OverrideKeysCanonicalWitness ==
  /\ data # Null
  /\ data[1].tokenPrices # << >>
  /\ data[1].tokenPrices[1].token = LiquidETH
  /\ LiquidETH # toLowerCase(LiquidETH)
  /\ MapHas(simulatedPrices, toLowerCase(LiquidETH))
  /\ MapHas(lastOverride, toLowerCase(LiquidETH))

\* C17: the simulated debt is independent of the price overrides: a step that
\* sets a simulated debt changes no price override and no derived metric, and
\* a step that sets a price override leaves the simulated debt as it was.
DebtIndependentOfPrices ==
  [][/\ (dragBorrow' # dragBorrow /\ dragBorrow' # Null)
          => /\ simulatedPrices' = simulatedPrices
             /\ data' = data
             /\ metadataMap' = metadataMap
     /\ (simulatedPrices' # simulatedPrices /\ data' = data)
          => dragBorrow' = dragBorrow]_vars

\* C18: the derived view is never stale.  After every step the value the
\* simulationData memo holds is the one its body computes from the current
\* fetched data, override set and metadata, and the risk shown is the one the
\* RiskVisualizer computes from that value and the current simulated debt.
DeriveReflectsEveryChange ==
  /\ memo.value = simulationDataOf(data, simulatedPrices, metadataMap)
  /\ (data # Null /\ ~loading) => riskView = RiskVisualizer(simulationData[1], dragBorrow)

\* A memo recomputed after a price override that moved the borrowing capacity
DeriveReflectsEveryChangeWitness ==
  /\ data # Null
  /\ lastOverride # << >>
  /\ memo.deps = <<data, simulatedPrices, metadataMap>>
  /\ memo.value[1].maxBorrow # data[1].maxBorrow

\* The decimals() of every token, in the shape of a metadata map
DebtMetadata ==
  [i \in DOMAIN TokenDecimals |->
     [key |-> toLowerCase(TokenDecimals[i].key),
      val |-> [symbol |-> "TOKEN", decimals |-> TokenDecimals[i].val]]]

\* The sum of the values of the debt positions from i on, each computed as a
\* collateral value is, with no LTV factor
RECURSIVE ClaimedDebt(_, _, _, _)
ClaimedDebt(borrows, i, priceMap, sum) ==
  IF i > Len(borrows) THEN sum
  ELSE Then(sum,
            ClaimedDebt(borrows, i + 1, priceMap,
                        FAdd(sum, ClaimedValue(borrows[i], priceMap, DebtMetadata))))

\* C19: while no simulated debt is active, the debt the health factor is
\* computed from is the sum of the debt positions' values at the effective
\* (override-merged) prices.
ActualDebtAtEffectivePrices ==
  (data # Null /\ ~loading /\ dragBorrow = Null)
    => riskView.displayBorrow =
         ClaimedDebt(data[1].borrows, 1,
                     mergeSimulatedPrices(data[1].tokenPrices, simulatedPrices), FZero)

\* C20: with metadata missing for some or all of the collateral, the derived
\* totals are still recomputed at the latest prices (18 decimals standing in
\* for the missing entries), so a price override still changes them.
DerivedWithoutMetadata ==
  (data # Null /\ data[1].collateralBalances # << >> /\ lastOverride # << >>)
    => SameTotals(simulationData[1],
                  calculateVaultMetrics(data[1].collateralBalances, LatestPrices,
                                        metadataMap))

\* data and metadataMap are what a load of address produces, for some outcome
\* of its two multicalls
LoadedAs(reply, metaOk) ==
  /\ reply.ok
  /\ data[1] = reply.data
  /\ metadataMap = fetchTokensMetadataBatch(reply.data.collateralBalances, metaOk)

LoadedFrom(address) ==
  \E multicallOk, metaOk \in BOOLEAN :
    LoadedAs(fetchSafeData(address, "reply", multicallOk), metaOk)

\* Every override is for an asset the loaded vault quotes or holds
OverridesOf(address) ==
  \A i \in DOMAIN simulatedPrices :
    \/ QuotesOf(data[1].tokenPrices, simulatedPrices[i].key) # {}
    \/ Listed(simulatedPrices[i].key)

MetricsNeverThrow ==
  call.fn = "calculateVaultMetrics" => ~call.ret.threw

\* C23: calculateVaultMetrics reads an asset's decimals from its metadata
\* entry whatever they are, 0 included, and takes 18 only for an asset with
\* no entry: a call that returns returns the totals computed that way.
DecimalsFromMetadata ==
  (call.fn = "calculateVaultMetrics" /\ ~call.ret.threw)
    => /\ call.ret.totalCollateral
            = ClaimedMetrics(call.args[1], call.args[2], call.args[3]).totalCollateral
       /\ call.ret.maxBorrow
            = ClaimedMetrics(call.args[1], call.args[2], call.args[3]).maxBorrow

\* The message the claim gives a failed fetch: by the revert data of a
\* CALL_EXCEPTION, else the failure's own message or the unknown-error one
ClaimedMessage(reverted, rpc) ==
  IF rpc = "reply"
  THEN IF reverted.data = "0x34d0b499" THEN ERROR_MESSAGES.INVALID_SAFE
       ELSE ERROR_MESSAGES.FETCH_FAILED
  ELSE IF rpc = "timeout" THEN "request timeout"
  ELSE ERROR_MESSAGES.UNKNOWN

\* The recalculation of a reply's metrics failed
RecalculationFailed(rawData, multicallOk) ==
  calculateVaultMetrics(rawData.collateralBalances, buildPriceMap(rawData.tokenPrices),
                        fetchTokensMetadataBatch(rawData.collateralBalances, multicallOk)).threw

FetchedAsClaimed(rawData, rpc, multicallOk, ret) ==
  IF rpc = "reply" /\ ~rawData.reverts
  THEN /\ ret.ok
       /\ ret.data.collateralBalances = rawData.collateralBalances
       /\ ret.data.tokenPrices = rawData.tokenPrices
       /\ RecalculationFailed(rawData, multicallOk)
            => ret.data.maxBorrow = rawData.maxBorrow
  ELSE /\ ~ret.ok
       /\ ret.message = ClaimedMessage(rawData, rpc)

\* C24: fetchSafeData returns the vault data or fails with one message: the
\* invalid-Safe one for a CALL_EXCEPTION with data 0x34d0b499, the
\* fetch-failed one for any other CALL_EXCEPTION, the failure's own message or
\* the unknown-error one otherwise; a failed recalculation is no failure and
\* leaves the contract's maxBorrow.
FetchFailsTyped ==
  call.fn = "fetchSafeData"
    => FetchedAsClaimed(getSafeCashData(call.args[1]), call.args[2], call.args[3], call.ret)

\* An address that is no Safe, refused with the invalid-Safe message
FetchFailsTypedWitness ==
  /\ call.fn = "fetchSafeData"
  /\ call.args[1] = "0xEOA"
  /\ call.args[2] = "reply"
  /\ ~call.ret.ok
  /\ call.ret.message = "This address is not a valid Ether.fi Safe."

\* C25: a step that brings new vault data on screen clears the simulated
\* debt: the debt displayed for the newly loaded vault is its actual total
\* debt, never a value dragged before.
LoadClearsSimulatedDebt ==
  [][(data' # data /\ data' # Null)
       => /\ dragBorrow' = Null
          /\ ~isDragging'
          /\ RiskVisualizer(memo'.value[1], dragBorrow').displayBorrow
               = metricOf(data'[1].totalBorrow)]_vars

\* Vault 0xB newly on screen, showing its own debt of $400
LoadClearsSimulatedDebtWitness ==
  /\ data # Null
  /\ ~loading
  /\ vaultAddress = "0xB"
  /\ dragBorrow = Null
  /\ lastOverride = << >>
  /\ riskView.displayBorrow = FromInt(400)

\* C26: the simulated debt takes a new value only when a mouse-down starts a
\* drag, and then the displayed debt, or on a mouse move while the drag
\* lasts; the step that ends the drag (mouse-up) leaves the dragged value in
\* place.
DragOnlyBetweenDownAndUp ==
  [][/\ (dragBorrow' # dragBorrow /\ dragBorrow' # Null)
          => /\ isDragging'
             /\ ~isDragging
                  => dragBorrow' = Some(RiskVisualizer(memo.value[1], dragBorrow).displayBorrow)
     /\ (isDragging /\ ~isDragging' /\ ~loading')
          => dragBorrow' = dragBorrow]_vars

\* After the mouse-up: $250 dragged on vault 0xA, whose actual debt is 0
DragOnlyBetweenDownAndUpWitness ==
  /\ data # Null
  /\ vaultAddress = "0xA"
  /\ ~isDragging
  /\ dragBorrow = Some(FromInt(250))
  /\ riskView.displayBorrow = FromInt(250)
  /\ data[1].totalBorrow = 0

\* maxBorrow as the RiskVisualizer on screen computes it
ShownMaxBorrow == metricOf(memo.value[1].maxBorrow)

\* C27: a simulated debt set by a mouse move during a drag lies between 0 and
\* the current maxBorrow, both included, and with a maxBorrow of 0 a mouse
\* move leaves the simulated debt as it was.
DragWithinMaxBorrow ==
  [][(\E position \in MousePositions : handleMouseMove(position[1], position[2]))
       => IF FIsZero(ShownMaxBorrow) THEN dragBorrow' = dragBorrow
          ELSE /\ dragBorrow' # Null
               /\ FLe(FZero, dragBorrow'[1])
               /\ FLe(dragBorrow'[1], ShownMaxBorrow)]_vars

\* The pointer right of the track during a drag: the debt is maxBorrow itself
DragWithinMaxBorrowWitness ==
  /\ data # Null
  /\ isDragging
  /\ ~FIsZero(ShownMaxBorrow)
  /\ dragBorrow = Some(ShownMaxBorrow)

\* The metadata map is the one fetched for the collateral on screen
MetadataOfShown ==
  \E multicallOk \in BOOLEAN :
    metadataMap = fetchTokensMetadataBatch(data[1].collateralBalances, multicallOk)

\* The override set holds a price for every asset the data on screen quotes,
\* and for no asset it neither quotes nor holds
OverridesOfShown ==
  /\ \A i \in DOMAIN data[1].tokenPrices :
       MapHas(simulatedPrices, toLowerCase(data[1].tokenPrices[i].token))
  /\ \A i \in DOMAIN simulatedPrices :
       \/ QuotesOf(data[1].tokenPrices, simulatedPrices[i].key) # {}
       \/ Listed(simulatedPrices[i].key)

\* C28: whenever vault data is present, the metadata map and the override set
\* come from the same submission as the data: no state shows the data of one
\* vault with the metadata or the overrides of another.
NoMixedVaultState ==
  data # Null => (MetadataOfShown /\ OverridesOfShown)

\* Vault 0xC on screen after its load, with its own metadata and seeded price
NoMixedVaultStateWitness ==
  /\ data # Null
  /\ vaultAddress = "0xC"
  /\ metadataMap = <<Metadata(USDC, 6)>>
  /\ simulatedPrices = <<[key |-> toLowerCase(USDC), val |-> 1000000]>>

\* C29: after every address submission the loading flag returns to false,
\* whether the fetches succeed or fail, provided they complete.
LoadingEnds == loading ~> ~loading

\* A submission whose fetch failed, the flag back to false
LoadingEndsWitness ==
  /\ ~loading
  /\ vaultAddress = "0xOLD"
  /\ error # Null
  /\ data = Null

\* C30: a failed load leaves the session empty: while an error message is
\* set, no vault data is present, the override set is empty and the load is
\* over; so an error message and vault data are never both present.
FailedLoadLeavesEmpty ==
  error # Null
    => /\ data = Null
       /\ simulatedPrices = << >>
       /\ lastOverride = << >>
       /\ ~loading
       /\ memo.value = Null

\* An address that is no Safe, submitted and refused
FailedLoadLeavesEmptyWitness ==
  /\ vaultAddress = "0xEOA"
  /\ error = Some(ERROR_MESSAGES.INVALID_SAFE)
  /\ data = Null
  /\ simulatedPrices = << >>
  /\ pc = "idle"

====
